---- MODULE Spec2Model ----
(***************************************************************************)
(* Selection and view controller of static/js/app.js: the selection set    *)
(* (selectedItems), its projection on the grid, the three rocket blocks    *)
(* and the launch button, the launch transition (handleLaunchButtonClick), *)
(* the in-place word-cloud view with its auto-return timer, and the        *)
(* language switch.  One action is one event-loop task: a DOM event        *)
(* handler, a timer callback, or the continuation of an async function     *)
(* after the promise it awaits has settled (with every microtask that      *)
(* follows it).                                                            *)
(***************************************************************************)
EXTENDS Integers, Sequences, FiniteSets, TLC

\* ---------------------------------------------------------------- bounds
\* Number of grid items (.purple-block elements, one data-key each).
NumKeys == 4
\* Texts whose font size the font-size variant computes.
NumFontKeys == 3
\* Largest number of translation fetches of one language in flight at once.
MaxPendingLoads == 1

\* ---------------------------------------------------- program constants
\* maxSelections: capacity of the selection and number of rocket blocks.
maxSelections == 3

Keys == 1..NumKeys
NoKey == 0
RocketIndices == 0..(maxSelections - 1)
NoSlot == -1
\* The language buttons (data-lang); "none" is the empty translation map {}.
Langs == {"en", "he"}
NoLang == "none"
\* null timer handle
NoTimer == 0
\* (font-size variant) cache keys `${language}:${text}`; the sizes
\* calculateOptimalFontSize returns (the floor 8, the fallback 16); undefined.
FontKeys == 1..NumFontKeys
FontSizes == {8, 16}
NoSize == 0
\* No request sent: the bodies of the launch's two POSTs before they exist.
NoPrecomputeBody == [items |-> <<>>, language |-> NoLang]
NoVoteBody == [items |-> <<>>]

VARIABLES
    selectedItems,        \* sequence of [key, rocketIndex]
    rocketBlocks,         \* rocket block index -> key whose text it shows, or NoKey
    gridSelected,         \* grid buttons carrying class "selected"
    gridClassDisabled,    \* grid buttons carrying class "disabled"
    buttonsDisabled,      \* .disabled property of the grid and rocket buttons
    launchDisabled,       \* .disabled property (and class) of the launch button
    currentLanguage,
    currentTranslations,  \* language whose map is applied, or NoLang
    translationsCache,    \* languages whose map is cached
    pendingLoads,         \* language -> translation fetches in flight
    isWordcloudVisible,
    wordcloudReturnTimer, \* handle kept by the page, NoTimer for null
    armedTimers,          \* auto-return timeouts pending in the browser
    resetPending,         \* deferred-reset timeouts of returnToSelection pending
    launchPc,             \* where handleLaunchButtonClick is suspended
    selectedKeys,         \* its local selectedKeys (<<>> when it is not running)
    precomputeBody,       \* body of the POST /preview-wordcloud it sent
    voteBody,             \* body of the POST /submit-vote it sent
    precomputePromise,    \* its local precomputePromise: none/pending/ok/fail
    animDone,             \* the launch animation promise of the running launch resolved
    precomputeRequests,   \* POST /preview-wordcloud sent by the running launch
    voteRequests,         \* POST /submit-vote sent by the running launch
    commitRequests,       \* POST /commit-wordcloud sent by the running launch
    errorShown,           \* alert() raised since the last launch click
    loggedError,          \* the error its catch block logged: none/vote/precompute/image
    returnCause,          \* what called the return in progress: none/manual/auto
    lastFreed,            \* rocket index freed by the last grid click, if it deselected
    lastRejected,         \* the last grid click since the launch or selection change
                          \* before it found the selection full and changed nothing
    rocketLaunching,      \* class "launching" on the rocket
    wordcloudImageLang,   \* language of the file wordcloudImage.src names while its
                          \* load is awaited or the container is shown, else NoLang
                          \* (showWordcloudView sets src before it shows the container)
    commitOutcome,        \* how the commit of the running or shown launch settled:
                          \* none/ok/fail
    fontSizeCache,        \* (font-size variant) cache key -> font size, or NoSize
    saveTimeout,          \* (font-size variant) handle kept by saveFontSizes
    saveTimers,           \* (font-size variant) save timeouts pending in the browser
    fontPosts,            \* (font-size variant) bodies of the POST /font-sizes sent
    callsSinceFire,       \* saveFontSizes calls since a save timeout last fired
    bursts,               \* bursts of saveFontSizes calls begun
    lastBurstCalls        \* calls of the burst the last fired timeout ended

fontVars == <<fontSizeCache, saveTimeout, saveTimers, fontPosts, callsSinceFire,
              bursts, lastBurstCalls>>

appVars == <<selectedItems, rocketBlocks, gridSelected, gridClassDisabled,
          buttonsDisabled, launchDisabled, currentLanguage, currentTranslations,
          translationsCache, pendingLoads, isWordcloudVisible,
          wordcloudReturnTimer, armedTimers, resetPending, launchPc,
          selectedKeys, precomputeBody, voteBody, precomputePromise, animDone, precomputeRequests,
          voteRequests, commitRequests, errorShown, loggedError, returnCause,
          lastFreed, lastRejected, rocketLaunching, wordcloudImageLang,
          commitOutcome>>

vars == <<appVars, fontVars>>

selVars == <<selectedItems, rocketBlocks, gridSelected, gridClassDisabled, lastFreed,
             lastRejected>>
langVars == <<currentLanguage, currentTranslations, translationsCache, pendingLoads>>
timerVars == <<isWordcloudVisible, wordcloudReturnTimer, armedTimers, resetPending,
               returnCause>>
launchVars == <<launchPc, selectedKeys, precomputeBody, voteBody, precomputePromise, animDone,
                precomputeRequests, voteRequests, commitRequests, errorShown,
                loggedError>>
pageVars == <<rocketLaunching, wordcloudImageLang, commitOutcome>>

\* window.location.pathname of the index page, the page with the launch button
\* (the back button of the other page navigates to it, line 691).
pathname == "/"

\* ------------------------------------------------------ pure helpers
\* Array.prototype.findIndex on item.key; 0 stands for -1, positions are 1-based.
FindIndexByKey(items, key) ==
    IF \E j \in 1..Len(items) : items[j].key = key
    THEN CHOOSE j \in 1..Len(items) :
            /\ items[j].key = key
            /\ \A m \in 1..(j - 1) : items[m].key # key
    ELSE 0

\* A slip of the rocket-block lookup: the block's index is taken for the array
\* position of its entry.
FindIndexByRocketIndexPositional(items, idx) ==
    IF idx + 1 <= Len(items) THEN idx + 1 ELSE 0

\* findIndex on item.rocketIndex.
FindIndexByRocketIndex(items, idx) ==
    IF \E j \in 1..Len(items) : items[j].rocketIndex = idx
    THEN CHOOSE j \in 1..Len(items) :
            /\ items[j].rocketIndex = idx
            /\ \A m \in 1..(j - 1) : items[m].rocketIndex # idx
    ELSE 0

\* A slip of splice: splice(i) without a count drops everything from i on.
SpliceToEnd(items, i) == SubSeq(items, 1, i - 1)

\* selectedItems.splice(existingIndex, 1)
Splice(items, i) == SubSeq(items, 1, i - 1) \o SubSeq(items, i + 1, Len(items))

\* selectedItems.map(item => item.rocketIndex)
UsedIndices(items) == {items[j].rocketIndex : j \in 1..Len(items)}

\* while (usedIndices.includes(rocketIndex) && rocketIndex < 3) rocketIndex++
RECURSIVE ScanRocketIndex(_, _)
ScanRocketIndex(used, rocketIndex) ==
    IF rocketIndex \in used /\ rocketIndex < maxSelections
    THEN ScanRocketIndex(used, rocketIndex + 1)
    ELSE rocketIndex

\* A slip of the slot search: the slot is taken from the array position.
NextRocketIndexLen(items) == Len(items)

\* A slip of the slot search: the scan starts above the highest used index.
NextRocketIndexAfterMax(items) ==
    IF items = <<>> THEN 0
    ELSE (CHOOSE m \in UsedIndices(items) : \A u \in UsedIndices(items) : u <= m) + 1

\* let rocketIndex = 0; while (...) rocketIndex++
NextRocketIndex(items) == ScanRocketIndex(UsedIndices(items), 0)

\* currentTranslations[item.key] is a non-empty string
HasText(translations, key) == translations # NoLang

\* A slip of updateRocketBlocks: the n-th item is written on the n-th block.
UpdateRocketBlocksByPosition(items, translations) ==
    [i \in RocketIndices |->
        IF i + 1 <= Len(items) /\ HasText(translations, items[i + 1].key)
        THEN items[i + 1].key
        ELSE NoKey]

\* updateRocketBlocks: clear every block, then write each item in array order
\* (a later item overwrites an earlier one on the same block).
UpdateRocketBlocks(items, translations) ==
    [i \in RocketIndices |->
        LET js == {j \in 1..Len(items) :
                      items[j].rocketIndex = i /\ HasText(translations, items[j].key)}
        IN IF js = {} THEN NoKey
           ELSE items[CHOOSE j \in js : \A m \in js : m <= j].key]

SelectedKeySet(items) == {items[j].key : j \in 1..Len(items)}

\* updateGridStates: class "disabled" of the grid buttons
GridDisabledClass(items) ==
    IF Len(items) >= maxSelections THEN Keys \ SelectedKeySet(items) ELSE {}

\* updateLaunchButtonState: launchButton.disabled
LaunchDisabledFor(items) == Len(items) # maxSelections

\* clearTimeout(handle) on the browser's pending timeouts
ClearTimeout(timers, handle) == timers \ {handle}

\* A slip of clearReturnTimer: the handle is forgotten, the timeout is not cleared.
ClearReturnTimerForgetOnly(timers, handle) == timers

\* clearReturnTimer: the pending timeouts after it
ClearReturnTimer(timers, handle) ==
    IF handle # NoTimer THEN ClearTimeout(timers, handle) ELSE timers

\* setTimeout returns a handle no pending timeout has
NewTimer(timers) == CHOOSE t \in 1..(Cardinality(timers) + 1) : t \notin timers

\* The view the controller is in.
ViewState ==
    IF launchPc # "idle" THEN "Transitioning"
    ELSE IF isWordcloudVisible THEN "ResultShown"
    ELSE IF resetPending > 0 THEN "Returning"
    ELSE "Selecting"

\* ------------------------------------------------------------ Init
\* The state after the DOMContentLoaded handler on the index page.
AppInit ==
    /\ selectedItems = <<>>
    /\ rocketBlocks = [i \in RocketIndices |-> NoKey]
    /\ gridSelected = {}
    /\ gridClassDisabled = {}
    /\ buttonsDisabled = FALSE
    /\ launchDisabled = TRUE
    /\ currentLanguage \in Langs
    /\ currentTranslations = NoLang
    /\ translationsCache = {}
    /\ pendingLoads = [l \in Langs |-> IF l = currentLanguage THEN 1 ELSE 0]
    /\ isWordcloudVisible = FALSE
    /\ wordcloudReturnTimer = NoTimer
    /\ armedTimers = {}
    /\ resetPending = 0
    /\ launchPc = "idle"
    /\ selectedKeys = <<>>
    /\ precomputeBody = NoPrecomputeBody
    /\ voteBody = NoVoteBody
    /\ precomputePromise = "none"
    /\ animDone = FALSE
    /\ precomputeRequests = 0
    /\ voteRequests = 0
    /\ commitRequests = 0
    /\ errorShown = FALSE
    /\ loggedError = "none"
    /\ returnCause = "none"
    /\ lastFreed = NoSlot
    /\ lastRejected = FALSE
    /\ rocketLaunching = FALSE
    /\ wordcloudImageLang = NoLang
    /\ commitOutcome = "none"

\* No save of font sizes is pending or was made.
NoFontSave ==
    /\ saveTimeout = NoTimer
    /\ saveTimers = {}
    /\ fontPosts = <<>>
    /\ callsSinceFire = 0
    /\ bursts = 0
    /\ lastBurstCalls = 0

\* app.js has no font-size cache.
Init ==
    /\ AppInit
    /\ fontSizeCache = [k \in FontKeys |-> NoSize]
    /\ NoFontSave

\* The font-size variant after loadFontSizes was awaited: the cache holds what
\* the server answered ({} when the request failed).
FontInit ==
    /\ AppInit
    /\ fontSizeCache \in [FontKeys -> FontSizes \cup {NoSize}]
    /\ NoFontSave

\* ------------------------------------------------ selection manager
\* A slip of the capacity check: a click on a new key at full capacity takes
\* the place of the oldest entry.
ToggleItemReplaceOldest(items, key) ==
    LET existingIndex == FindIndexByKey(items, key)
        rocketIndex == NextRocketIndex(items)
    IN IF existingIndex # 0
       THEN Splice(items, existingIndex)
       ELSE IF Len(items) < maxSelections /\ rocketIndex < maxSelections
            THEN Append(items, [key |-> key, rocketIndex |-> rocketIndex])
            ELSE Append(Tail(items), [key |-> key, rocketIndex |-> Head(items).rocketIndex])

\* handleGridItemClick, lines 173-196: the selection after a click on `key`.
ToggleItem(items, key) ==
    LET existingIndex == FindIndexByKey(items, key)
        rocketIndex == NextRocketIndex(items)
    IN IF existingIndex # 0
       THEN Splice(items, existingIndex)
       ELSE IF Len(items) < maxSelections /\ rocketIndex < maxSelections
            THEN Append(items, [key |-> key, rocketIndex |-> rocketIndex])
            ELSE items

\* Click on a grid button.  A disabled button dispatches no click event.
handleGridItemClick(key) ==
    /\ ~buttonsDisabled
    /\ LET existingIndex == FindIndexByKey(selectedItems, key)
           items == ToggleItem(selectedItems, key)
       IN /\ selectedItems' = items
          /\ rocketBlocks' = UpdateRocketBlocks(items, currentTranslations)
          /\ gridSelected' = SelectedKeySet(items)
          /\ gridClassDisabled' = GridDisabledClass(items)
          /\ launchDisabled' = LaunchDisabledFor(items)
          /\ lastFreed' = IF existingIndex # 0
                          THEN selectedItems[existingIndex].rocketIndex
                          ELSE NoSlot
          /\ lastRejected' = (items = selectedItems)
    /\ UNCHANGED <<buttonsDisabled, langVars, fontVars, timerVars, launchVars, pageVars>>

\* Click on a rocket block.
handleRocketBlockClick(rocketIndex) ==
    /\ ~buttonsDisabled
    /\ LET existingIndex == FindIndexByRocketIndex(selectedItems, rocketIndex)
           items == Splice(selectedItems, existingIndex)
       IN IF existingIndex # 0
          THEN /\ selectedItems' = items
               /\ rocketBlocks' = UpdateRocketBlocks(items, currentTranslations)
               /\ gridSelected' = SelectedKeySet(items)
               /\ gridClassDisabled' = GridDisabledClass(items)
               /\ launchDisabled' = LaunchDisabledFor(items)
               /\ lastRejected' = FALSE
               /\ UNCHANGED <<buttonsDisabled, lastFreed>>
          ELSE UNCHANGED <<selVars, buttonsDisabled, launchDisabled>>
    /\ UNCHANGED <<langVars, fontVars, timerVars, launchVars, pageVars>>

\* ------------------------------------------------------ launch
\* A slip of the key collection: the first entry is skipped.
MapKeysSkipFirst(items) ==
    [j \in 1..(Len(items) - 1) |-> items[j + 1].key]

\* selectedItems.map(item => item.key)
MapKeys(items) ==
    [j \in 1..Len(items) |-> items[j].key]

\* handleLaunchButtonClick returns: its locals and the requests it sent are gone.
HandlerReturns ==
    /\ launchPc' = "idle"
    /\ selectedKeys' = <<>>
    /\ precomputeBody' = NoPrecomputeBody
    /\ voteBody' = NoVoteBody
    /\ precomputePromise' = "none"
    /\ animDone' = FALSE
    /\ precomputeRequests' = 0
    /\ voteRequests' = 0
    /\ commitRequests' = 0

\* A slip of the catch block: the launch button is restored but
\* setLaunchInteractionDisabled(false) is left out.
CatchBlockNoReenable(error) ==
    /\ loggedError' = error
    /\ errorShown' = TRUE
    /\ launchDisabled' = FALSE
    /\ UNCHANGED <<buttonsDisabled, gridClassDisabled>>
    /\ wordcloudImageLang' = NoLang
    /\ rocketLaunching' = FALSE
    /\ commitOutcome' = "none"
    /\ HandlerReturns

\* The catch block of handleLaunchButtonClick: alert, launch button restored,
\* setLaunchInteractionDisabled(false).  The handler returns.
CatchBlock(error) ==
    /\ loggedError' = error
    /\ errorShown' = TRUE
    /\ launchDisabled' = FALSE
    /\ buttonsDisabled' = FALSE
    /\ gridClassDisabled' = {}
    /\ rocketLaunching' = FALSE
    /\ commitOutcome' = "none"
    /\ wordcloudImageLang' = NoLang
    /\ HandlerReturns

\* A slip of the launch sequence: commitWordcloud() is not awaited, and
\* showWordcloudView starts while the commit is in flight.
SendCommitNoAwait ==
    /\ commitRequests' = commitRequests + 1
    /\ launchPc' = "image"
    /\ wordcloudImageLang' = currentLanguage
    /\ UNCHANGED <<selectedKeys, precomputeBody, voteBody, animDone,
                   precomputeRequests, voteRequests, buttonsDisabled,
                   launchDisabled, gridClassDisabled, errorShown, loggedError,
                   rocketLaunching, commitOutcome>>

\* await commitWordcloud(): the commit request is sent.
SendCommit ==
    /\ commitRequests' = commitRequests + 1
    /\ launchPc' = "commit"
    /\ UNCHANGED <<selectedKeys, precomputeBody, voteBody, animDone, precomputeRequests, voteRequests,
                   buttonsDisabled, launchDisabled, gridClassDisabled, errorShown,
                   loggedError, pageVars>>

\* A slip of the launch sequence: the vote is posted before the animation is
\* awaited, together with the precomputation.
handleLaunchButtonClickVoteFirst ==
    IF Len(selectedItems) # maxSelections
    THEN UNCHANGED vars
    ELSE /\ launchDisabled' = TRUE
         /\ buttonsDisabled' = TRUE
         /\ gridClassDisabled' = Keys
         /\ selectedKeys' = MapKeys(selectedItems)
         /\ precomputePromise' = "pending"
         /\ precomputeRequests' = precomputeRequests + 1
         /\ precomputeBody' = [items |-> selectedKeys', language |-> currentLanguage]
         /\ voteRequests' = voteRequests + 1
         /\ voteBody' = [items |-> selectedKeys']
         /\ animDone' = FALSE
         /\ errorShown' = FALSE
         /\ loggedError' = "none"
         /\ launchPc' = "anim"
         /\ lastRejected' = FALSE
         /\ rocketLaunching' = TRUE
         /\ UNCHANGED <<wordcloudImageLang, commitOutcome>>
         /\ UNCHANGED <<selectedItems, rocketBlocks, gridSelected, lastFreed,
                        commitRequests, langVars, fontVars, timerVars>>

\* A slip of the launch handler: setLaunchInteractionDisabled(true) is left out.
handleLaunchButtonClickKeepsGrid ==
    IF Len(selectedItems) # maxSelections
    THEN UNCHANGED vars
    ELSE /\ launchDisabled' = TRUE
         /\ UNCHANGED <<buttonsDisabled, gridClassDisabled>>
         /\ selectedKeys' = MapKeys(selectedItems)
         /\ precomputePromise' = "pending"
         /\ precomputeRequests' = precomputeRequests + 1
         /\ precomputeBody' = [items |-> selectedKeys', language |-> currentLanguage]
         /\ voteBody' = NoVoteBody
         /\ animDone' = FALSE
         /\ errorShown' = FALSE
         /\ loggedError' = "none"
         /\ launchPc' = "anim"
         /\ lastRejected' = FALSE
         /\ rocketLaunching' = TRUE
         /\ UNCHANGED <<wordcloudImageLang, commitOutcome>>
         /\ UNCHANGED <<selectedItems, rocketBlocks, gridSelected, lastFreed,
                        voteRequests, commitRequests, langVars, fontVars, timerVars>>

\* A slip of the launch handler: the length guard is left out.
handleLaunchButtonClickNoLengthCheck ==
    /\ launchDisabled' = TRUE
    /\ buttonsDisabled' = TRUE
    /\ gridClassDisabled' = Keys
    /\ selectedKeys' = MapKeys(selectedItems)
    /\ precomputePromise' = "pending"
    /\ precomputeRequests' = precomputeRequests + 1
    /\ precomputeBody' = [items |-> selectedKeys', language |-> currentLanguage]
    /\ voteBody' = NoVoteBody
    /\ animDone' = FALSE
    /\ errorShown' = FALSE
    /\ loggedError' = "none"
    /\ launchPc' = "anim"
    /\ lastRejected' = FALSE
    /\ rocketLaunching' = TRUE
    /\ UNCHANGED <<wordcloudImageLang, commitOutcome>>
    /\ UNCHANGED <<selectedItems, rocketBlocks, gridSelected, lastFreed,
                   voteRequests, commitRequests, langVars, fontVars, timerVars>>

\* handleLaunchButtonClick up to its first await (the launch animation): the
\* buttons are disabled, the keys collected, the precomputation request sent.
handleLaunchButtonClick ==
    IF Len(selectedItems) # maxSelections
    THEN UNCHANGED vars
    ELSE /\ launchDisabled' = TRUE
         /\ buttonsDisabled' = TRUE
         /\ gridClassDisabled' = Keys
         /\ selectedKeys' = MapKeys(selectedItems)
         /\ precomputePromise' = "pending"
         /\ precomputeRequests' = precomputeRequests + 1
         /\ precomputeBody' = [items |-> selectedKeys', language |-> currentLanguage]
         /\ voteBody' = NoVoteBody
         /\ animDone' = FALSE
         /\ errorShown' = FALSE
         /\ loggedError' = "none"
         /\ launchPc' = "anim"
         /\ lastRejected' = FALSE
         /\ rocketLaunching' = TRUE
         /\ UNCHANGED <<wordcloudImageLang, commitOutcome>>
         /\ UNCHANGED <<selectedItems, rocketBlocks, gridSelected, lastFreed,
                        voteRequests, commitRequests, langVars, fontVars, timerVars>>

\* A slip of the listener: the click is handled whatever launchButton.disabled is.
LaunchButtonClickUnguarded == handleLaunchButtonClick

\* Click on the launch button: the listener runs the handler unless the button
\* is disabled.
LaunchButtonClick ==
    /\ ~launchDisabled
    /\ handleLaunchButtonClick

\* The launch animation promise resolves: the handler goes on and sends the vote.
AnimationComplete ==
    /\ launchPc = "anim"
    /\ animDone' = TRUE
    /\ voteRequests' = voteRequests + 1
    /\ voteBody' = [items |-> selectedKeys]
    /\ launchPc' = "vote"
    /\ UNCHANGED <<selVars, buttonsDisabled, launchDisabled, langVars, fontVars, timerVars,
                   selectedKeys, precomputeBody, precomputePromise, precomputeRequests,
                   commitRequests, errorShown, loggedError, pageVars>>

\* The rocket's animationend event: onEnd resolves the animation promise.
AnimationEnd == AnimationComplete

\* A slip of the fallback: the test of the rocket's class is inverted.
AnimationFallbackClassGone ==
    /\ ~rocketLaunching
    /\ AnimationComplete

\* The 1700 ms fallback timeout of playRocketLaunchAnimation fires: it resolves
\* the promise if the rocket still has the class "launching".
AnimationFallback ==
    /\ rocketLaunching
    /\ AnimationComplete

\* A slip of the launch sequence: precomputePromise is not awaited before the
\* commit.
VoteResponseNoAwait(ok) ==
    /\ launchPc = "vote"
    /\ IF ok
       THEN /\ SendCommit
            /\ UNCHANGED precomputePromise
       ELSE CatchBlock("vote")
    /\ UNCHANGED <<selectedItems, rocketBlocks, gridSelected, lastFreed, lastRejected, langVars, fontVars,
                   timerVars>>

\* The vote fetch settles.  ok: response.ok; otherwise the fetch rejected or the
\* response was not ok.  On ok the handler awaits precomputePromise.
VoteResponse(ok) ==
    /\ launchPc = "vote"
    /\ IF ok /\ precomputePromise = "ok"
       THEN /\ SendCommit
            /\ UNCHANGED precomputePromise
       ELSE IF ok /\ precomputePromise = "pending"
       THEN /\ launchPc' = "precompute"
            /\ UNCHANGED <<buttonsDisabled, launchDisabled, gridClassDisabled,
                           precomputePromise, errorShown, loggedError,
                           commitRequests, selectedKeys, precomputeBody, voteBody, animDone,
                           precomputeRequests, voteRequests, pageVars>>
       ELSE CatchBlock(IF ok THEN "precompute" ELSE "vote")
    /\ UNCHANGED <<selectedItems, rocketBlocks, gridSelected, lastFreed, lastRejected, langVars, fontVars,
                   timerVars>>

\* The /preview-wordcloud fetch settles: precomputePromise is fulfilled or
\* rejected; a handler suspended on it goes on.
PrecomputeResponse(ok) ==
    /\ precomputePromise = "pending"
    /\ IF launchPc # "precompute"
       THEN /\ precomputePromise' = (IF ok THEN "ok" ELSE "fail")
            /\ UNCHANGED <<buttonsDisabled, launchDisabled, gridClassDisabled,
                           launchPc, errorShown, loggedError, commitRequests,
                           selectedKeys, precomputeBody, voteBody, animDone, precomputeRequests,
                           voteRequests, pageVars>>
       ELSE IF ok
       THEN /\ precomputePromise' = "ok"
            /\ SendCommit
       ELSE CatchBlock("precompute")
    /\ UNCHANGED <<selectedItems, rocketBlocks, gridSelected, lastFreed, lastRejected, langVars, fontVars,
                   timerVars>>

\* A slip of commitWordcloud: its catch is left out, a failed commit rejects
\* and the launch handler's catch block runs.
CommitSettledRejects(ok) ==
    /\ launchPc = "commit"
    /\ IF ok
       THEN /\ commitOutcome' = "ok"
            /\ wordcloudImageLang' = currentLanguage
            /\ launchPc' = "image"
            /\ UNCHANGED <<rocketLaunching, buttonsDisabled, launchDisabled,
                           gridClassDisabled, selectedKeys, precomputeBody, voteBody, precomputePromise,
                           animDone, precomputeRequests, voteRequests,
                           commitRequests, errorShown, loggedError>>
       ELSE CatchBlock("commit")
    /\ UNCHANGED <<selectedItems, rocketBlocks, gridSelected, lastFreed,
                   lastRejected, langVars, fontVars, timerVars>>

\* commitWordcloud settles; it resolves on success and on failure alike.
\* showWordcloudView starts: loadWordcloudImage(currentLanguage) sets the
\* image's src and the load is awaited.
CommitSettled(ok) ==
    /\ launchPc = "commit"
    /\ launchPc' = "image"
    /\ commitOutcome' = (IF ok THEN "ok" ELSE "fail")
    /\ wordcloudImageLang' = currentLanguage
    /\ UNCHANGED rocketLaunching
    /\ UNCHANGED <<selVars, buttonsDisabled, launchDisabled, langVars, fontVars, timerVars,
                   selectedKeys, precomputeBody, voteBody, precomputePromise, animDone, precomputeRequests,
                   voteRequests, commitRequests, errorShown, loggedError>>

\* A slip of showWordcloudView: the auto-return timeout is not set.
ShowWordcloudNoTimer ==
    /\ isWordcloudVisible' = TRUE
    /\ wordcloudReturnTimer' = NoTimer
    /\ armedTimers' = ClearReturnTimer(armedTimers, wordcloudReturnTimer)
    /\ UNCHANGED <<resetPending, returnCause>>

\* showWordcloudView after the image load: the view is swapped, the old timer
\* cleared and the auto-return timer armed.
ShowWordcloud ==
    LET cleared == ClearReturnTimer(armedTimers, wordcloudReturnTimer)
        t == NewTimer(cleared)
    IN /\ isWordcloudVisible' = TRUE
       /\ wordcloudReturnTimer' = t
       /\ armedTimers' = cleared \cup {t}
       /\ UNCHANGED <<resetPending, returnCause>>

\* A slip of loadWordcloudImage: the error event resolves the promise too.
ImageSettledErrorResolves(ok) ==
    /\ launchPc = "image"
    /\ ShowWordcloud
    /\ HandlerReturns
    /\ UNCHANGED <<buttonsDisabled, launchDisabled, gridClassDisabled,
                   errorShown, loggedError, pageVars>>
    /\ UNCHANGED <<selectedItems, rocketBlocks, gridSelected, lastFreed, lastRejected, langVars, fontVars>>

\* The word-cloud image fires load or error.
ImageSettled(ok) ==
    /\ launchPc = "image"
    /\ IF ok
       THEN /\ ShowWordcloud
            /\ HandlerReturns
            /\ UNCHANGED <<buttonsDisabled, launchDisabled, gridClassDisabled,
                           errorShown, loggedError, pageVars>>
       ELSE /\ CatchBlock("image")
            /\ UNCHANGED timerVars
    /\ UNCHANGED <<selectedItems, rocketBlocks, gridSelected, lastFreed, lastRejected, langVars, fontVars>>

\* ------------------------------------------------------ return
\* A slip of returnToSelection: clearReturnTimer() is left out.
returnToSelectionKeepsTimer(timers, cause) ==
    IF ~isWordcloudVisible
    THEN /\ armedTimers' = timers
         /\ UNCHANGED <<isWordcloudVisible, wordcloudReturnTimer, resetPending,
                        returnCause>>
    ELSE /\ armedTimers' = timers
         /\ UNCHANGED wordcloudReturnTimer
         /\ isWordcloudVisible' = FALSE
         /\ resetPending' = resetPending + 1
         /\ returnCause' = cause

\* A slip of returnToSelection: the isWordcloudVisible guard is left out.
returnToSelectionUnguarded(timers, cause) ==
    /\ armedTimers' = ClearReturnTimer(timers, wordcloudReturnTimer)
    /\ wordcloudReturnTimer' = NoTimer
    /\ isWordcloudVisible' = FALSE
    /\ resetPending' = resetPending + 1
    /\ returnCause' = cause

\* returnToSelection, called by `cause` with `timers` the timeouts pending then.
returnToSelection(timers, cause) ==
    IF ~isWordcloudVisible
    THEN /\ armedTimers' = timers
         /\ UNCHANGED <<isWordcloudVisible, wordcloudReturnTimer, resetPending,
                        returnCause>>
    ELSE /\ armedTimers' = ClearReturnTimer(timers, wordcloudReturnTimer)
         /\ wordcloudReturnTimer' = NoTimer
         /\ isWordcloudVisible' = FALSE
         /\ resetPending' = resetPending + 1
         /\ returnCause' = cause

\* A slip of returnToSelection: setLaunchInteractionDisabled(false) runs at
\* once, not in the deferred reset.
BackButtonClickEnablesEarly ==
    /\ returnToSelection(armedTimers, "manual")
    /\ buttonsDisabled' = IF isWordcloudVisible THEN FALSE ELSE buttonsDisabled
    /\ launchDisabled' = IF isWordcloudVisible THEN FALSE ELSE launchDisabled
    /\ gridClassDisabled' = IF isWordcloudVisible THEN {} ELSE gridClassDisabled
    /\ UNCHANGED <<selectedItems, rocketBlocks, gridSelected, lastFreed,
                   lastRejected, langVars, fontVars, launchVars, pageVars>>

\* Click on the back button (index page).
BackButtonClick ==
    /\ returnToSelection(armedTimers, "manual")
    /\ UNCHANGED <<selVars, buttonsDisabled, launchDisabled, langVars, fontVars, launchVars,
                   pageVars>>

\* The auto-return timeout t fires.
AutoReturnTimerFires(t) ==
    /\ t \in armedTimers
    /\ returnToSelection(armedTimers \ {t}, "auto")
    /\ UNCHANGED <<selVars, buttonsDisabled, launchDisabled, langVars, fontVars, launchVars,
                   pageVars>>

\* The timeout set by returnToSelection fires (WORDCLOUD_FADE_MS): selections
\* reset, projections refreshed, setLaunchInteractionDisabled(false).
DeferredReset ==
    /\ resetPending > 0
    /\ resetPending' = resetPending - 1
    /\ selectedItems' = <<>>
    /\ rocketBlocks' = UpdateRocketBlocks(<<>>, currentTranslations)
    /\ gridSelected' = SelectedKeySet(<<>>)
    /\ gridClassDisabled' = {}
    /\ launchDisabled' = FALSE
    /\ buttonsDisabled' = FALSE
    /\ lastFreed' = NoSlot
    /\ lastRejected' = FALSE
    /\ returnCause' = IF resetPending = 1 THEN "none" ELSE returnCause
    /\ rocketLaunching' = FALSE
    /\ commitOutcome' = "none"
    /\ wordcloudImageLang' = NoLang
    /\ UNCHANGED <<langVars, fontVars, isWordcloudVisible, wordcloudReturnTimer,
                   armedTimers, launchVars>>

\* ------------------------------------------------------ language
isWordcloudPage == pathname = "/wordcloud"

\* applyTranslations, then (setLanguage, lines 239-241) the image is pointed at
\* the language's file when the page is the word-cloud page.
applyTranslations(lang) ==
    /\ currentTranslations' = lang
    /\ rocketBlocks' = UpdateRocketBlocks(selectedItems, lang)
    /\ wordcloudImageLang' = IF isWordcloudPage THEN lang ELSE wordcloudImageLang

\* A slip of setLanguage: the grid and the launch button are refreshed from the
\* selection after the language is switched.
setLanguageRefreshesButtons(lang) ==
    /\ currentLanguage' = lang
    /\ IF lang \in translationsCache
       THEN /\ applyTranslations(lang)
            /\ UNCHANGED <<translationsCache, pendingLoads>>
       ELSE /\ pendingLoads[lang] < MaxPendingLoads
            /\ pendingLoads' = [pendingLoads EXCEPT ![lang] = @ + 1]
            /\ UNCHANGED <<currentTranslations, translationsCache, rocketBlocks,
                           wordcloudImageLang>>
    /\ gridClassDisabled' = GridDisabledClass(selectedItems)
    /\ launchDisabled' = LaunchDisabledFor(selectedItems)
    /\ UNCHANGED <<selectedItems, gridSelected, lastFreed, lastRejected,
                   buttonsDisabled, timerVars, fontVars, launchVars,
                   rocketLaunching, commitOutcome>>

\* Click on a language button: setLanguage(lang) up to the end of its first task.
setLanguage(lang) ==
    /\ currentLanguage' = lang
    /\ IF lang \in translationsCache
       THEN /\ applyTranslations(lang)
            /\ UNCHANGED <<translationsCache, pendingLoads>>
       ELSE /\ pendingLoads[lang] < MaxPendingLoads
            /\ pendingLoads' = [pendingLoads EXCEPT ![lang] = @ + 1]
            /\ UNCHANGED <<currentTranslations, translationsCache, rocketBlocks,
                           wordcloudImageLang>>
    /\ UNCHANGED <<selectedItems, gridSelected, gridClassDisabled, lastFreed, lastRejected,
                   buttonsDisabled, launchDisabled, timerVars, fontVars, launchVars,
                   rocketLaunching, commitOutcome>>

\* A translation fetch settles.
TranslationsSettled(lang, ok) ==
    /\ pendingLoads[lang] > 0
    /\ pendingLoads' = [pendingLoads EXCEPT ![lang] = @ - 1]
    /\ IF ok
       THEN /\ translationsCache' = translationsCache \cup {lang}
            /\ applyTranslations(lang)
       ELSE UNCHANGED <<translationsCache, currentTranslations, rocketBlocks,
                        wordcloudImageLang>>
    /\ UNCHANGED <<selectedItems, gridSelected, gridClassDisabled, lastFreed, lastRejected,
                   currentLanguage, buttonsDisabled, launchDisabled, timerVars, fontVars,
                   launchVars, rocketLaunching, commitOutcome>>

\* ------------------------------------------------------ font sizes
\* A slip of the debounce: the pending timeout is not cleared.
saveFontSizesNoClear ==
    LET t == NewTimer(saveTimers)
    IN /\ saveTimeout' = t
       /\ saveTimers' = saveTimers \cup {t}
       /\ callsSinceFire' = callsSinceFire + 1
       /\ bursts' = IF callsSinceFire = 0 THEN bursts + 1 ELSE bursts
       /\ UNCHANGED <<fontPosts, lastBurstCalls>>

\* saveFontSizes: clearTimeout(saveTimeout), then a new 500 ms timeout.
saveFontSizes ==
    LET cleared == ClearTimeout(saveTimers, saveTimeout)
        t == NewTimer(cleared)
    IN /\ saveTimeout' = t
       /\ saveTimers' = cleared \cup {t}
       /\ callsSinceFire' = callsSinceFire + 1
       /\ bursts' = IF callsSinceFire = 0 THEN bursts + 1 ELSE bursts
       /\ UNCHANGED <<fontPosts, lastBurstCalls>>

\* calculateOptimalFontSize on a cache miss: the size found is cached and
\* saveFontSizes called.  (A hit returns the cached size and changes nothing.)
calculateOptimalFontSize(cacheKey, finalSize) ==
    /\ fontSizeCache[cacheKey] = NoSize
    /\ fontSizeCache' = [fontSizeCache EXCEPT ![cacheKey] = finalSize]
    /\ saveFontSizes
    /\ UNCHANGED appVars

\* The save timeout t fires: the cache as it is now is posted.
SaveTimerFires(t) ==
    /\ t \in saveTimers
    /\ saveTimers' = saveTimers \ {t}
    /\ fontPosts' = Append(fontPosts, fontSizeCache)
    /\ lastBurstCalls' = callsSinceFire
    /\ callsSinceFire' = 0
    /\ UNCHANGED <<fontSizeCache, saveTimeout, bursts, appVars>>

FontNext ==
    \/ \E cacheKey \in FontKeys, finalSize \in FontSizes :
          calculateOptimalFontSize(cacheKey, finalSize)
    \/ \E t \in saveTimers : SaveTimerFires(t)

FontSpec == FontInit /\ [][FontNext]_vars

\* ------------------------------------------------------ specification
Next ==
    \/ \E key \in Keys : handleGridItemClick(key)
    \/ \E rocketIndex \in RocketIndices : handleRocketBlockClick(rocketIndex)
    \/ LaunchButtonClick
    \/ AnimationEnd
    \/ AnimationFallback
    \/ \E ok \in BOOLEAN : VoteResponse(ok)
    \/ \E ok \in BOOLEAN : PrecomputeResponse(ok)
    \/ \E ok \in BOOLEAN : CommitSettled(ok)
    \/ \E ok \in BOOLEAN : ImageSettled(ok)
    \/ BackButtonClick
    \/ \E t \in armedTimers : AutoReturnTimerFires(t)
    \/ DeferredReset
    \/ \E lang \in Langs : setLanguage(lang)
    \/ \E lang \in Langs, ok \in BOOLEAN : TranslationsSettled(lang, ok)

Spec == Init /\ [][Next]_vars

\* Timers fire, and every request and image load of the launch settles.  The
\* animationend event and the user's clicks are not owed.
FairSpec ==
    /\ Spec
    /\ WF_vars(AnimationFallback)
    /\ WF_vars(\E ok \in BOOLEAN : VoteResponse(ok))
    /\ WF_vars(\E ok \in BOOLEAN : PrecomputeResponse(ok))
    /\ WF_vars(\E ok \in BOOLEAN : CommitSettled(ok))
    /\ WF_vars(\E ok \in BOOLEAN : ImageSettled(ok))
    /\ WF_vars(\E t \in armedTimers : AutoReturnTimerFires(t))
    /\ WF_vars(DeferredReset)

\* The page when nobody presses the back button.
NextNoManualReturn ==
    \/ \E key \in Keys : handleGridItemClick(key)
    \/ \E rocketIndex \in RocketIndices : handleRocketBlockClick(rocketIndex)
    \/ LaunchButtonClick
    \/ AnimationEnd
    \/ AnimationFallback
    \/ \E ok \in BOOLEAN : VoteResponse(ok)
    \/ \E ok \in BOOLEAN : PrecomputeResponse(ok)
    \/ \E ok \in BOOLEAN : CommitSettled(ok)
    \/ \E ok \in BOOLEAN : ImageSettled(ok)
    \/ \E t \in armedTimers : AutoReturnTimerFires(t)
    \/ DeferredReset
    \/ \E lang \in Langs : setLanguage(lang)
    \/ \E lang \in Langs, ok \in BOOLEAN : TranslationsSettled(lang, ok)

AutoReturnSpec ==
    /\ Init
    /\ [][NextNoManualReturn]_vars
    /\ WF_vars(\E t \in armedTimers : AutoReturnTimerFires(t))
    /\ WF_vars(DeferredReset)

\* ============================================================ claims
\* The lowest index of 0..2 no entry of `items` uses (3 when all are used).
MinUnusedIndex(items) ==
    CHOOSE i \in 0..3 :
        /\ i = 3 \/ \A j \in 1..Len(items) : items[j].rocketIndex # i
        /\ \A m \in 0..(i - 1) : \E j \in 1..Len(items) : items[j].rocketIndex = m

\* `items` without the entries of `key`, order kept.
WithoutKey(items, key) ==
    LET Keep(e) == e.key # key IN SelectSeq(items, Keep)

\* `items` without the entries on rocket block `idx`, order kept.
WithoutRocketIndex(items, idx) ==
    LET Keep(e) == e.rocketIndex # idx IN SelectSeq(items, Keep)

\* C1: in every reachable state selectedItems has at most 3 entries, pairwise
\* distinct keys, and pairwise distinct rocket indices, each in {0,1,2}.
C1_SelectionSetInvariant ==
    /\ Len(selectedItems) <= 3
    /\ \A i, j \in 1..Len(selectedItems) :
          i # j => /\ selectedItems[i].key # selectedItems[j].key
                   /\ selectedItems[i].rocketIndex # selectedItems[j].rocketIndex
    /\ \A i \in 1..Len(selectedItems) : selectedItems[i].rocketIndex \in {0, 1, 2}

\* C1 witness: a full selection whose slots are out of array order, after a
\* launch was aborted and the selection changed again.
C1_Witness ==
    /\ Len(selectedItems) = 3
    /\ selectedItems[1].rocketIndex = 2
    /\ errorShown
    /\ currentTranslations # NoLang

\* C2: a grid click on an absent key with fewer than 3 entries appends one
\* entry for that key, and its rocket index is the lowest index of {0,1,2}
\* that no entry used just before the click.
C2_AddAssignsLowestUnused ==
    [][\A key \in Keys :
        (/\ handleGridItemClick(key)
         /\ key \notin SelectedKeySet(selectedItems)
         /\ Len(selectedItems) < 3)
        => /\ Len(selectedItems') = Len(selectedItems) + 1
           /\ SubSeq(selectedItems', 1, Len(selectedItems)) = selectedItems
           /\ selectedItems'[Len(selectedItems')].key = key
           /\ selectedItems'[Len(selectedItems')].rocketIndex
                 = MinUnusedIndex(selectedItems)
           /\ MinUnusedIndex(selectedItems) \in {0, 1, 2}]_vars

\* C2 witness: the entry added last went into the gap between slots 0 and 2.
C2_Witness ==
    /\ Len(selectedItems) = 3
    /\ selectedItems[1].rocketIndex = 0
    /\ selectedItems[2].rocketIndex = 2
    /\ selectedItems[3].rocketIndex = 1

\* C3 (as claimed): whenever the view is Selecting, the launch button is
\* enabled if and only if exactly 3 distinct keys are selected.
C3_LaunchEnabledIffFull ==
    ViewState = "Selecting" =>
        (~launchDisabled <=> Cardinality(SelectedKeySet(selectedItems)) = 3)

\* C4: the word cloud never becomes visible unless the launch animation has
\* completed and the precomputation has succeeded, and while a launch lacks
\* either of the two the word cloud is not visible.
C4_ResultOnlyAfterBoth ==
    /\ [](launchPc # "idle" /\ ~(animDone /\ precomputePromise = "ok")
            => ~isWordcloudVisible)
    /\ [][(~isWordcloudVisible /\ isWordcloudVisible')
            => (animDone /\ precomputePromise = "ok" /\ launchPc # "idle")]_vars

\* C4 witness: ResultShown reached by a submit with 3 selections.
C4_Witness ==
    /\ isWordcloudVisible
    /\ ViewState = "ResultShown"
    /\ Len(selectedItems) = 3

\* C5: during a launch the launch button stays disabled (a click on it is not
\* handled), exactly one precomputation request has been sent, and exactly one
\* vote request is sent, none before the animation completes and one after.
C5_OneLaunchInFlight ==
    launchPc # "idle" =>
        /\ launchDisabled
        /\ ~ENABLED LaunchButtonClick
        /\ precomputeRequests = 1
        /\ voteRequests = (IF launchPc = "anim" THEN 0 ELSE 1)

\* C5 witness: a launch in flight, vote answered, precomputation outstanding.
C5_Witness ==
    /\ launchPc = "precompute"
    /\ precomputePromise = "pending"
    /\ voteRequests = 1

\* The step in which the handler learns that the vote or the precomputation
\* was rejected.
RejectionReachesHandler ==
    \/ VoteResponse(FALSE)
    \/ VoteResponse(TRUE) /\ precomputePromise = "fail"
    \/ PrecomputeResponse(FALSE) /\ launchPc = "precompute"

\* C6: when the vote or the precomputation is rejected, the launch ends in
\* Selecting with the same 3 entries, buttons and launch button enabled and an
\* alert shown; a launch whose precomputation was rejected never goes on to
\* commit or to show the word cloud.
C6_RejectionRestoresSelecting ==
    /\ [](precomputePromise = "fail"
            => launchPc \in {"anim", "vote"} /\ ~isWordcloudVisible)
    /\ [][RejectionReachesHandler
            => /\ ViewState' = "Selecting"
               /\ ~isWordcloudVisible'
               /\ selectedItems' = selectedItems
               /\ Len(selectedItems') = 3
               /\ [j \in 1..3 |-> selectedItems'[j].key] = selectedKeys
               /\ ~buttonsDisabled'
               /\ ~launchDisabled'
               /\ errorShown']_vars

\* C6 witness: back in Selecting after a rejected precomputation.
C6_Witness ==
    /\ loggedError = "precompute"
    /\ ViewState = "Selecting"
    /\ Len(selectedItems) = 3
    /\ ~launchDisabled

\* The state a return ends in.
ReturnedToSelecting ==
    /\ ViewState = "Selecting"
    /\ selectedItems = <<>>
    /\ \A i \in RocketIndices : rocketBlocks[i] = NoKey
    /\ ~buttonsDisabled

\* C7: with no manual return, ResultShown holds an armed auto-return timer and
\* leads to Selecting with an empty selection, empty rocket blocks and enabled
\* buttons.
C7_AutoReturn ==
    /\ [](isWordcloudVisible => wordcloudReturnTimer \in armedTimers)
    /\ (isWordcloudVisible ~> ReturnedToSelecting)

\* C7 witness: the reset of an auto-return has run.
C7_Witness ==
    /\ ReturnedToSelecting
    /\ ~launchDisabled
    /\ returnCause = "none"
    /\ currentTranslations # NoLang

\* C8: a back-button return from ResultShown leaves no auto-return timeout
\* pending and the same state as the timer's own return; outside ResultShown
\* no auto-return timeout is pending, so none fires later.
C8_ManualReturnCancelsTimer ==
    /\ [](ViewState # "ResultShown" => armedTimers = {})
    /\ [][(isWordcloudVisible /\ (BackButtonClick \/ \E t \in armedTimers :
                                                      AutoReturnTimerFires(t)))
            => /\ armedTimers' = {}
               /\ wordcloudReturnTimer' = NoTimer
               /\ ~isWordcloudVisible'
               /\ resetPending' = 1
               /\ UNCHANGED <<selVars, buttonsDisabled, launchDisabled, langVars,
                              launchVars>>]_vars

\* C8 witness: a manual return in progress, its timer cancelled.
C8_Witness ==
    /\ returnCause = "manual"
    /\ ViewState = "Returning"
    /\ armedTimers = {}

\* C9 (as claimed): while the launch animation is awaited, both the vote
\* request and the precomputation request have been sent.
C9_BothRequestsBeforeAnimationEnds ==
    launchPc = "anim" => (precomputeRequests = 1 /\ voteRequests = 1)

\* C9 (amended): while the launch animation is awaited the precomputation
\* request has been sent and the vote request has not; the vote request is
\* sent once the animation has completed.
C9_PrecomputeBeforeVoteAfterAnimation ==
    /\ launchPc = "anim" => (precomputeRequests = 1 /\ voteRequests = 0 /\ ~animDone)
    /\ voteRequests > 0 => animDone
    /\ launchPc \in {"vote", "precompute", "commit", "image"}
          => (animDone /\ voteRequests = 1)

\* C9 witness: the animation is awaited, the precomputation already answered.
C9_Witness ==
    /\ launchPc = "anim"
    /\ precomputePromise = "ok"
    /\ voteRequests = 0

\* C10: a grid click on a selected key removes exactly that entry and keeps
\* the others in place; the slot it freed is the one the next grid click on an
\* unselected key gets whenever it is the lowest unused index.
C10_DeselectFreesSlot ==
    [][\A key \in Keys :
        handleGridItemClick(key) =>
           /\ key \in SelectedKeySet(selectedItems)
                => /\ selectedItems' = WithoutKey(selectedItems, key)
                   /\ Len(selectedItems') = Len(selectedItems) - 1
                   /\ lastFreed' \notin UsedIndices(selectedItems')
           /\ (/\ key \notin SelectedKeySet(selectedItems)
               /\ lastFreed # NoSlot
               /\ lastFreed = MinUnusedIndex(selectedItems))
                => /\ Len(selectedItems') = Len(selectedItems) + 1
                   /\ selectedItems'[Len(selectedItems')].key = key
                   /\ selectedItems'[Len(selectedItems')].rocketIndex = lastFreed]_vars

\* C10 witness: slot 0 was just freed by a grid click and two entries remain.
C10_Witness ==
    /\ lastFreed = 0
    /\ Len(selectedItems) = 2
    /\ selectedItems[1].rocketIndex = 2

\* C11: a grid click on an unselected key while 3 entries are selected
\* leaves selectedItems (keys, rocket indices, order) and the rocket blocks as
\* they are, raises no alert and does not leave the view.
C11_FullSelectionRejectsNewKey ==
    [][\A key \in Keys :
        (/\ handleGridItemClick(key)
         /\ key \notin SelectedKeySet(selectedItems)
         /\ Len(selectedItems) = 3)
        => /\ selectedItems' = selectedItems
           /\ rocketBlocks' = rocketBlocks
           /\ gridSelected' = gridSelected
           /\ errorShown' = errorShown
           /\ loggedError' = loggedError
           /\ ViewState' = ViewState]_vars

\* C11 witness: the last grid click met a full selection and was rejected.
C11_Witness ==
    /\ lastRejected
    /\ Len(selectedItems) = 3
    /\ ViewState = "Selecting"

\* C12: a click on rocket block i removes the entry on block i when there is
\* one and otherwise leaves selectedItems as it is; it never adds an entry.
C12_RocketClickOnlyRemoves ==
    [][\A idx \in RocketIndices :
        handleRocketBlockClick(idx)
        => /\ selectedItems' = WithoutRocketIndex(selectedItems, idx)
           /\ Len(selectedItems') <= Len(selectedItems)
           /\ SelectedKeySet(selectedItems') \subseteq SelectedKeySet(selectedItems)
           /\ (idx \notin UsedIndices(selectedItems) => selectedItems' = selectedItems)
           /\ (idx \in UsedIndices(selectedItems)
                 => Len(selectedItems') = Len(selectedItems) - 1)]_vars

\* C12 witness: block 1 was emptied by a click on it (no grid click freed a
\* slot), blocks 0 and 2 keep their entries.
C12_Witness ==
    /\ Len(selectedItems) = 2
    /\ UsedIndices(selectedItems) = {0, 2}
    /\ lastFreed = NoSlot

\* A grid button is marked disabled: class "disabled" or the disabled property.
MarkedDisabled(key) == key \in gridClassDisabled \/ buttonsDisabled

\* C13 (as claimed): whenever the view is Selecting, an unselected grid button
\* is marked disabled if and only if 3 entries are selected, and a selected
\* one is never marked disabled.
C13_UnselectedDisabledIffFull ==
    ViewState = "Selecting" =>
        \A key \in Keys :
            IF key \in SelectedKeySet(selectedItems)
            THEN ~MarkedDisabled(key)
            ELSE MarkedDisabled(key) <=> Len(selectedItems) = 3

\* C14: a failed commit request does not abort the launch: the handler goes
\* on to the image load without alert or logged launch error, and when the
\* image then loads the word cloud is shown.
C14_CommitFailureStillShowsResult ==
    [][/\ CommitSettled(FALSE)
          => /\ launchPc' = "image"
             /\ commitOutcome' = "fail"
             /\ ~errorShown'
             /\ loggedError' = "none"
             /\ ViewState' = "Transitioning"
       /\ (ImageSettled(TRUE) /\ commitOutcome = "fail")
          => /\ isWordcloudVisible'
             /\ ViewState' = "ResultShown"
             /\ ~errorShown']_vars

\* C14 witness: the word cloud is shown after a launch whose commit failed.
C14_Witness ==
    /\ ViewState = "ResultShown"
    /\ commitOutcome = "fail"

\* C15: a language click, and the settling of a translation load (ok or not),
\* leave selectedItems, the disabled states of the launch button and of the
\* selection buttons, and the view state as they are.
C15_SetLanguageKeepsSelectionAndView ==
    [][\A lang \in Langs :
        (setLanguage(lang) \/ \E ok \in BOOLEAN : TranslationsSettled(lang, ok))
        => /\ UNCHANGED <<selectedItems, gridSelected, launchDisabled,
                          buttonsDisabled, gridClassDisabled>>
           /\ ViewState' = ViewState]_vars

\* C15 witness: a launch is running, the language was switched to one whose
\* load failed, and the launch and selection buttons are still disabled.
C15_Witness ==
    /\ launchPc = "anim"
    /\ currentTranslations # NoLang
    /\ currentLanguage # currentTranslations
    /\ \A l \in Langs : pendingLoads[l] = 0
    /\ launchDisabled
    /\ buttonsDisabled

\* C16 (as claimed): when a language switch succeeds while the word cloud is
\* shown, the displayed image is that of the language switched to.
C16_ShownImageFollowsLanguage ==
    [][\A lang \in Langs :
        (/\ isWordcloudVisible
         /\ \/ setLanguage(lang) /\ lang \in translationsCache
            \/ TranslationsSettled(lang, TRUE))
        => wordcloudImageLang' = lang]_vars

\* C17 (as claimed): when a translation load fails, the applied translations
\* stay and currentLanguage, which later precomputation requests and image
\* loads read, is the language of the applied translations.
C17_FailedLoadKeepsLanguage ==
    [][\A lang \in Langs :
        TranslationsSettled(lang, FALSE)
        => /\ currentTranslations' = currentTranslations
           /\ currentTranslations # NoLang => currentLanguage' = currentTranslations]_vars

\* The selection view with its buttons enabled.
InteractiveSelecting == ViewState = "Selecting" /\ ~buttonsDisabled

\* C18: when timers fire and requests and image loads settle, an interactive
\* Selecting state is reached again and again; a launch leaves the wait for
\* its animation, and a shown word cloud is left.
C18_AlwaysRecoversToSelecting ==
    /\ []<>InteractiveSelecting
    /\ (launchPc = "anim") ~> (launchPc # "anim")
    /\ (ViewState = "ResultShown") ~> (ViewState # "ResultShown")
    /\ (ViewState = "Transitioning") ~> InteractiveSelecting

\* C18 witness: a launch waits for its animation, the rocket has the class the
\* fallback timeout tests.
C18_Witness ==
    /\ launchPc = "anim"
    /\ ~animDone
    /\ rocketLaunching
    /\ precomputePromise = "pending"

\* C19: when the image load of showWordcloudView fails, the alert is raised
\* and the page is in Selecting with the selection of 3 as it was and the
\* buttons enabled; the word cloud is not shown and no auto-return timer set.
C19_ImageFailureRestoresSelecting ==
    [][ImageSettled(FALSE)
       => /\ errorShown'
          /\ loggedError' = "image"
          /\ ViewState' = "Selecting"
          /\ ~isWordcloudVisible'
          /\ selectedItems' = selectedItems
          /\ Len(selectedItems') = 3
          /\ ~buttonsDisabled'
          /\ ~launchDisabled'
          /\ armedTimers' = {}
          /\ wordcloudReturnTimer' = NoTimer]_vars

\* C19 witness: back in Selecting after the image load failed, 3 selected.
C19_Witness ==
    /\ loggedError = "image"
    /\ errorShown
    /\ ViewState = "Selecting"
    /\ Len(selectedItems) = 3

\* C20: at most one auto-return timeout is pending, it is the one the page
\* holds the handle of, and one is pending only while the word cloud is shown.
C20_OneReturnTimerOnlyWhileShown ==
    /\ Cardinality(armedTimers) <= 1
    /\ armedTimers # {} => /\ ViewState = "ResultShown"
                           /\ armedTimers = {wordcloudReturnTimer}
    /\ wordcloudReturnTimer # NoTimer => wordcloudReturnTimer \in armedTimers

\* C20 witness: the word cloud is shown and its auto-return timeout is pending.
C20_Witness ==
    /\ ViewState = "ResultShown"
    /\ Cardinality(armedTimers) = 1
    /\ wordcloudReturnTimer \in armedTimers

\* C21: from the launch until the deferred reset of the return has run the
\* selection buttons are disabled, and selectedItems changes only in Selecting
\* or when that reset empties it.
C21_SelectionFrozenWhileLaunched ==
    /\ [](ViewState \in {"Transitioning", "ResultShown", "Returning"}
            => buttonsDisabled)
    /\ [][selectedItems' # selectedItems
            => \/ ViewState = "Selecting"
               \/ ViewState = "Returning" /\ selectedItems' = <<>>]_vars

\* C21 witness: the word cloud is shown, the selection of 3 is still there and
\* the grid and rocket buttons are disabled.
C21_Witness ==
    /\ ViewState = "ResultShown"
    /\ Len(selectedItems) = 3
    /\ buttonsDisabled
    /\ gridClassDisabled = Keys

\* C22: a launch sends at most one commit request, and only when its vote
\* and its precomputation have succeeded; the image load and the word cloud
\* come only after the commit settled; a launch aborted by a failed vote or
\* precomputation has sent no commit request.
C22_CommitAfterBothThenShow ==
    /\ [](/\ commitRequests <= 1
          /\ commitRequests = 1
               => /\ launchPc \in {"commit", "image"}
                  /\ precomputePromise = "ok"
                  /\ voteRequests = 1
          /\ launchPc = "image" => commitRequests = 1 /\ commitOutcome # "none"
          /\ isWordcloudVisible => commitOutcome # "none")
    /\ [][commitRequests' = commitRequests + 1
            => \/ VoteResponse(TRUE) /\ precomputePromise = "ok"
               \/ PrecomputeResponse(TRUE) /\ launchPc = "precompute"]_vars
    /\ [][(launchPc # "idle" /\ launchPc' = "idle"
             /\ loggedError' \in {"vote", "precompute"})
            => commitRequests = 0]_vars
    /\ [][(isWordcloudVisible' /\ ~isWordcloudVisible)
            => ImageSettled(TRUE) /\ commitOutcome # "none"]_vars

\* C22 witness: the commit request is in flight after vote and precomputation
\* succeeded.
C22_Witness ==
    /\ launchPc = "commit"
    /\ commitRequests = 1
    /\ voteRequests = 1
    /\ precomputePromise = "ok"

\* C23: during a launch the precomputation and the vote request carry the
\* same 3 keys, those of selectedItems at the click, and selectedItems has
\* exactly those keys when the launch ends (word cloud shown, or aborted).
C23_RequestsCarrySelection ==
    /\ [](launchPc # "idle"
            => /\ Len(selectedItems) = 3
               /\ Len(selectedKeys) = 3
               /\ \A j \in 1..3 : selectedKeys[j] = selectedItems[j].key
               /\ precomputeBody.items = selectedKeys
               /\ voteRequests > 0 => voteBody.items = precomputeBody.items)
    /\ [][(launchPc # "idle" /\ launchPc' = "idle")
            => /\ Len(selectedItems') = 3
               /\ Len(precomputeBody.items) = 3
               /\ \A j \in 1..3 : selectedItems'[j].key = precomputeBody.items[j]
               /\ voteBody.items = precomputeBody.items]_vars

\* C23 witness: the vote request is in flight with the keys of the
\* precomputation request.
C23_Witness ==
    /\ launchPc = "vote"
    /\ Len(voteBody.items) = 3
    /\ voteBody.items = precomputeBody.items
    /\ precomputePromise = "pending"

\* C24: rocket block i shows the key of the entry whose rocketIndex is i when
\* there is one and translations are applied, and nothing otherwise; a block
\* never shows a key that is not selected.
C24_RocketBlocksProjectSelection ==
    \A i \in RocketIndices :
        /\ rocketBlocks[i] = NoKey
             <=> \/ currentTranslations = NoLang
                 \/ \A j \in 1..Len(selectedItems) : selectedItems[j].rocketIndex # i
        /\ rocketBlocks[i] # NoKey
             => /\ rocketBlocks[i] \in SelectedKeySet(selectedItems)
                /\ \E j \in 1..Len(selectedItems) :
                      /\ selectedItems[j].rocketIndex = i
                      /\ selectedItems[j].key = rocketBlocks[i]

\* C24 witness: block 0 was emptied, blocks 1 and 2 show their entries.
C24_Witness ==
    /\ Len(selectedItems) = 2
    /\ rocketBlocks[0] = NoKey
    /\ rocketBlocks[1] # NoKey
    /\ rocketBlocks[2] # NoKey

\* C25 (as claimed): a launch that ends with the error alert is one whose vote
\* request failed.
C25_AbortMeansNoVoteRecorded ==
    [][(launchPc # "idle" /\ launchPc' = "idle" /\ errorShown')
        => VoteResponse(FALSE)]_vars

\* C26 (as claimed): when a translation load succeeds and no load is left
\* pending, with the translations of currentLanguage loaded too, the applied
\* translations are those of currentLanguage.
C26_LastLanguageCallWins ==
    [][\A lang \in Langs :
        (/\ TranslationsSettled(lang, TRUE)
         /\ \A l \in Langs : pendingLoads'[l] = 0
         /\ currentLanguage \in translationsCache')
        => currentTranslations' = currentLanguage]_vars

\* C27: a back-button click or a firing auto-return timeout outside
\* ResultShown changes nothing of the page; a deferred reset is scheduled only
\* from ResultShown, one at a time, and it is what empties the selection.
C27_ReturnTriggerOnlyInResultShown ==
    /\ [](resetPending <= 1 /\ (resetPending = 1 => ViewState = "Returning"))
    /\ [][((BackButtonClick \/ \E t \in armedTimers : AutoReturnTimerFires(t))
             /\ ViewState # "ResultShown")
            => UNCHANGED <<selVars, buttonsDisabled, launchDisabled, langVars,
                           launchVars, pageVars, isWordcloudVisible,
                           wordcloudReturnTimer, resetPending, returnCause>>]_vars
    /\ [][resetPending' > resetPending
            => ViewState = "ResultShown" /\ resetPending = 0]_vars
    /\ [][resetPending' < resetPending
            => resetPending' = 0 /\ selectedItems' = <<>>]_vars

\* C27 witness: a manual return is in progress, its reset still to come.
C27_Witness ==
    /\ ViewState = "Returning"
    /\ resetPending = 1
    /\ returnCause = "manual"
    /\ Len(selectedItems) = 3

\* C28: a click on an enabled launch button while selectedItems has not
\* exactly 3 entries changes nothing; a launch starts (requests, animation
\* class, disabled buttons, Transitioning) only with 3 entries.
C28_LaunchWithoutThreeIsNoOp ==
    /\ [][(LaunchButtonClick /\ Len(selectedItems) # 3) => UNCHANGED vars]_vars
    /\ [][(\/ launchPc = "idle" /\ launchPc' # "idle"
           \/ precomputeRequests' > precomputeRequests
           \/ voteRequests' > voteRequests
           \/ rocketLaunching' /\ ~rocketLaunching
           \/ buttonsDisabled' /\ ~buttonsDisabled)
            => Len(selectedItems) = 3]_vars

\* C28 witness: Selecting with an empty selection and the launch button
\* enabled.
C28_Witness ==
    /\ ViewState = "Selecting"
    /\ Len(selectedItems) = 0
    /\ ~launchDisabled
    /\ ~buttonsDisabled

\* C29: while the word cloud is shown and while the return is in progress the
\* selection buttons and the launch button are disabled; the step that enables
\* them again leaves selectedItems empty.
C29_ResetBeforeReenable ==
    /\ [](ViewState \in {"ResultShown", "Returning"}
            => buttonsDisabled /\ launchDisabled)
    /\ [][(ViewState \in {"ResultShown", "Returning"}
             /\ (~buttonsDisabled' \/ ~launchDisabled'))
            => selectedItems' = <<>>]_vars

\* C29 witness: an auto-return is in progress, the shown vote's entries are
\* still selected and every button is disabled.
C29_Witness ==
    /\ ViewState = "Returning"
    /\ returnCause = "auto"
    /\ Len(selectedItems) = 3
    /\ buttonsDisabled
    /\ launchDisabled

\* C30: at most one save timeout is pending, the one saveFontSizes holds; one
\* is pending exactly while calls wait for it; every burst of calls that ended
\* made exactly one POST, and a firing timeout posts the cache as it is then.
C30_SaveFontSizesDebounced ==
    /\ [](/\ Cardinality(saveTimers) <= 1
          /\ saveTimers # {} => saveTimers = {saveTimeout}
          /\ (saveTimers # {}) <=> (callsSinceFire > 0)
          /\ Len(fontPosts) = bursts - (IF callsSinceFire > 0 THEN 1 ELSE 0))
    /\ [][\A t \in saveTimers :
            SaveTimerFires(t)
            => /\ Len(fontPosts') = Len(fontPosts) + 1
               /\ fontPosts'[Len(fontPosts')] = fontSizeCache'
               /\ saveTimers' = {}]_vars

\* C30 witness: a burst of at least 2 calls ended with a single POST.
C30_Witness ==
    /\ lastBurstCalls >= 2
    /\ Len(fontPosts) = 1
    /\ bursts = 1
    /\ saveTimers = {}

====
